---- MODULE Spec2Model ----
(***************************************************************************)
(* Model of the sentence-similarity service (Sources/services/main.py) and *)
(* of the model provisioner (Sources/services/download_model.py).          *)
(*                                                                         *)
(* JSON values are tagged records; numbers are fixed-point with Scale      *)
(* units per 1.0; embeddings are small integer vectors.                    *)
(***************************************************************************)
EXTENDS Integers, Sequences, FiniteSets, TLC

VARIABLES fs, svc, model, loadPath, regAccess, fsAtCheck, prevRun, startupErr,
          prov, provPrompted, provFetched, provAnswer, provFsAtCheck,
          lastOp, lastReq, lastFail, lastResp, encodeCalled, had500, slots

svcVars  == <<svc, model, loadPath, regAccess, fsAtCheck, prevRun, startupErr>>
provVars == <<prov, provPrompted, provFetched, provAnswer, provFsAtCheck>>
reqVars  == <<lastOp, lastReq, lastFail, lastResp, encodeCalled, had500>>
vars     == <<fs, svcVars, provVars, reqVars, slots>>

\* ---------------------------------------------------------------- bounds
MaxCand  == 2
NumSlots == 2

\* ------------------------------------------------------------- constants
MODEL_NAME        == "all-MiniLM-L6-v2"
MODEL_DIR         == "models/all-MiniLM-L6-v2"
MODEL_HUGGINGFACE == "sentence-transformers/all-MiniLM-L6-v2"
Scale             == 100

\* ------------------------------------------------------------ JSON values
CandTexts == {"a", "b"}
SpecTexts == {"a", "c"}

Leaf(t, s) == [t |-> t, s |-> s]
StrLeaf(s) == Leaf("str", s)
NumLeaf    == Leaf("num", "5")

Value(t, s, items) == [t |-> t, s |-> s, items |-> items]
NullV      == Value("null", "", <<>>)
StrV(s)    == Value("str", s, <<>>)
NumV       == Value("num", "5", <<>>)
ListV(xs)  == Value("list", "", xs)

Body(t, s, items, hs, sp, hc, ca) ==
    [t |-> t, s |-> s, items |-> items,
     has_spec |-> hs, spec |-> sp, has_candidates |-> hc, candidates |-> ca]
Plain(t, s, items) == Body(t, s, items, FALSE, NullV, FALSE, NullV)

SeqsUpTo(S, n) == UNION {[1..k -> S] : k \in 0..n}

CandLeaves == {StrLeaf(x) : x \in CandTexts} \cup {NumLeaf}
SpecValues == {StrV(x) : x \in SpecTexts} \cup {NumV, NullV}
CandValues == {ListV(xs) : xs \in SeqsUpTo(CandLeaves, MaxCand)} \cup {StrV("a"), NumV}

ObjectBodies ==
    {Body("obj", "", <<>>, FALSE, NullV, FALSE, NullV)}
    \cup {Body("obj", "", <<>>, TRUE, sp, FALSE, NullV) : sp \in SpecValues}
    \cup {Body("obj", "", <<>>, FALSE, NullV, TRUE, ca) : ca \in CandValues}
    \cup {Body("obj", "", <<>>, TRUE, sp, TRUE, ca) : sp \in SpecValues, ca \in CandValues}

ScalarBodies ==
    {Plain("malformed", "syntax", <<>>), Plain("malformed", "recursion", <<>>),
     Plain("null", "", <<>>),
     Plain("num", "5", <<>>), Plain("bool", "true", <<>>),
     Plain("str", "x", <<>>), Plain("str", "spec", <<>>),
     Plain("str", "spec candidates", <<>>),
     Plain("list", "", <<>>), Plain("list", "", <<StrLeaf("spec")>>),
     Plain("list", "", <<StrLeaf("spec"), StrLeaf("candidates")>>)}

Bodies   == ScalarBodies \cup ObjectBodies
Request(ct, b) == [ctype |-> ct, body |-> b]
Requests ==
    {Request("json", b) : b \in Bodies}
    \cup {Request("other", b) : b \in ScalarBodies}
    \cup {Request("other", b) : b \in {o \in ObjectBodies : ~o.has_candidates}}
NoReq    == Request("none", Plain("null", "", <<>>))

\* ------------------------------------------------------- Python semantics
Chars(s) ==
    CASE s = "x"               -> <<"x">>
      [] s = "spec"            -> <<"s","p","e","c">>
      [] s = "candidates"      -> <<"c","a","n","d","i","d","a","t","e","s">>
      [] s = "spec candidates" -> <<"s","p","e","c"," ","c","a","n","d","i","d","a","t","e","s">>
      [] OTHER                 -> <<s>>

IsSubstring(sub, s) ==
    \E i \in 0..(Len(s) - Len(sub)) : SubSeq(s, i + 1, i + Len(sub)) = sub

\* key in data: "true", "false" or "TypeError"
py_contains(data, key) ==
    CASE data.t = "obj"  -> IF key = "spec" THEN (IF data.has_spec THEN "true" ELSE "false")
                            ELSE (IF data.has_candidates THEN "true" ELSE "false")
      [] data.t = "str"  -> IF IsSubstring(Chars(key), Chars(data.s)) THEN "true" ELSE "false"
      [] data.t = "list" -> IF \E i \in 1..Len(data.items) :
                                  data.items[i].t = "str" /\ data.items[i].s = key
                            THEN "true" ELSE "false"
      [] OTHER           -> "TypeError"

\* request.get_json(force=True) on a body that does not parse: a syntax error
\* becomes BadRequest; any other exception of the parser (RecursionError on
\* deeply nested input) reaches the generic handler
get_json_raises(data) ==
    IF data.t # "malformed" THEN "none"
    ELSE IF data.s = "recursion" THEN "Exception"
    ELSE "BadRequest"

\* data[key] is defined for a dict only; a str or a list raises TypeError
py_getitem_ok(data) == data.t = "obj"

isinstance_str(v)  == v.t = "str"
isinstance_list(v) == v.t = "list"
all_str(xs)        == \A i \in 1..Len(xs) : xs[i].t = "str"

\* ------------------------------------------------------- embedding model
\* model.encode: one fixed-length vector per text, in input order
embed(text) ==
    CASE text = "a" -> <<3, 4>>
      [] text = "b" -> <<4, 3>>
      [] OTHER      -> <<-3, -4>>

encode(texts) == [i \in 1..Len(texts) |-> embed(texts[i])]

Dot(x, y)  == x[1] * y[1] + x[2] * y[2]
ISqrt(n)   == CHOOSE r \in 0..n : r * r <= n /\ n < (r + 1) * (r + 1)
Norm(x)    == ISqrt(Dot(x, x))

\* sklearn cosine_similarity(X, Y): |X| x |Y| matrix of normalised dot products
cosine_similarity(X, Y) ==
    [i \in 1..Len(X) |->
        [j \in 1..Len(Y) |-> (Dot(X[i], Y[j]) * Scale) \div (Norm(X[i]) * Norm(Y[j]))]]

\* ---------------------------------------------------------------- responses
Resp(st, ks, err, ds, sf, mf) ==
    [status |-> st, keys |-> ks, error |-> err, distances |-> ds,
     status_field |-> sf, model_field |-> mf]
NoResp == Resp(0, {}, "", <<>>, "", "")

ErrorResp(st, err)   == Resp(st, {"error"}, err, <<>>, "", "")
DetailResp(st, err)  == Resp(st, {"error", "details"}, err, <<>>, "", "")
OkResp(ds)           == Resp(200, {"distances"}, "", ds, "", "")

E_CONTENT_TYPE == "Content-Type must be application/json"
E_INVALID_JSON == "Invalid JSON format"
E_PARSE_FAILED == "Failed to parse JSON"
E_EMPTY        == "Request body is empty or invalid JSON"
E_NO_SPEC      == "Missing 'spec' field"
E_NO_CAND      == "Missing 'candidates' field"
E_SPEC_TYPE    == "'spec' must be a string"
E_CAND_TYPE    == "'candidates' must be a list"
E_CAND_EMPTY   == "'candidates' list cannot be empty"
E_CAND_ITEMS   == "All items in 'candidates' must be strings"
E_INTERNAL     == "Internal server error"

\* variant: the error body is returned without its status code
internal_error_no_status == ErrorResp(200, E_INTERNAL)

\* lines 118-119: the request-boundary handler
internal_error == ErrorResp(500, E_INTERNAL)

\* variant: the distances come out in reverse candidate order
compute_distances_reversed(spec, candidates) ==
    LET spec_embedding       == encode(<<spec>>)
        candidate_embeddings == encode(candidates)
        similarities         == cosine_similarity(spec_embedding, candidate_embeddings)[1]
        n                    == Len(similarities)
    IN  [i \in 1..n |-> Scale - similarities[n + 1 - i]]

\* lines 101-116: encode, similarity, distance, in candidate order
compute_distances(spec, candidates) ==
    LET spec_embedding       == encode(<<spec>>)
        candidate_embeddings == encode(candidates)
        similarities         == cosine_similarity(spec_embedding, candidate_embeddings)[1]
    IN  [i \in 1..Len(similarities) |-> Scale - similarities[i]]

\* lines 101-119, reading the module-level model; fail: model.encode or
\* cosine_similarity raises (as does any use of an unset model)
process(spec, candidates, fail) ==
    IF fail \/ model = "none" THEN internal_error
    ELSE OkResp(compute_distances(spec, candidates))

TextsOf(items) == [i \in 1..Len(items) |-> items[i].s]

\* lines 61-99: "pass", or the response that ends the request
validate(req) ==
    LET data == req.body IN
    IF req.ctype # "json" THEN ErrorResp(400, E_CONTENT_TYPE)
    ELSE IF get_json_raises(data) = "BadRequest" THEN DetailResp(400, E_INVALID_JSON)
    ELSE IF get_json_raises(data) = "Exception" THEN DetailResp(400, E_PARSE_FAILED)
    ELSE IF data.t = "null" THEN ErrorResp(400, E_EMPTY)
    ELSE IF py_contains(data, "spec") = "TypeError" THEN internal_error
    ELSE IF py_contains(data, "spec") = "false" THEN ErrorResp(400, E_NO_SPEC)
    ELSE IF py_contains(data, "candidates") = "false" THEN ErrorResp(400, E_NO_CAND)
    ELSE IF ~py_getitem_ok(data) THEN internal_error
    ELSE IF ~isinstance_str(data.spec) THEN ErrorResp(400, E_SPEC_TYPE)
    ELSE IF ~isinstance_list(data.candidates) THEN ErrorResp(400, E_CAND_TYPE)
    ELSE IF Len(data.candidates.items) = 0 THEN ErrorResp(400, E_CAND_EMPTY)
    ELSE IF ~all_str(data.candidates.items) THEN ErrorResp(400, E_CAND_ITEMS)
    ELSE NoResp

passes(req) == validate(req) = NoResp

\* lines 43-119
calculate_distances(req, fail) ==
    IF passes(req)
    THEN process(req.body.spec.s, TextsOf(req.body.candidates.items), fail)
    ELSE validate(req)

\* variant: health reports the outcome of earlier requests
health_after_failure ==
    IF had500
    THEN Resp(503, {"status", "model"}, "", <<>>, "unhealthy", "all-MiniLM-L6-v2")
    ELSE Resp(200, {"status", "model"}, "", <<>>, "healthy", "all-MiniLM-L6-v2")

\* lines 122-125
health == Resp(200, {"status", "model"}, "", <<>>, "healthy", "all-MiniLM-L6-v2")

\* ------------------------------------------------------------- filesystem
\* the cache entry models/<MODEL_NAME>: the directory and its config.json
Fs(d, c)  == [dir |-> d, config |-> c]
FsAbsent  == Fs(FALSE, FALSE)
FsDirOnly == Fs(TRUE, FALSE)
FsFull    == Fs(TRUE, TRUE)
FsStates  == {FsAbsent, FsDirOnly, FsFull}

\* variant: the marker file is not checked
local_available_dir_only(f) == f.dir

\* main.py line 23: os.path.exists(MODEL_DIR) and os.path.exists(config_path)
local_available(f) == f.dir /\ f.config

\* download_model.py line 20: os.path.exists(MODEL_DIR)
cache_exists(f) == f.dir

\* model.save(MODEL_DIR): creates the directory, then writes config.json and weights
save_ok(f) == FsFull

\* model.save raising part-way: nothing written, directory only, or marker written
save_failed(f) == {f, Fs(TRUE, f.config), FsFull}

\* variant: the exception is logged and swallowed
on_startup_error_swallowed == "serving"

\* main.py lines 38-40: log and re-raise, the process terminates
on_startup_error == "crashed"

\* ------------------------------------------------------- sample requests
ObjReq(sp, ca) == Request("json", Body("obj", "", <<>>, TRUE, sp, TRUE, ca))
SampleRequests ==
    {ObjReq(StrV("a"), ListV(<<StrLeaf("a"), StrLeaf("b")>>)),
     ObjReq(StrV("c"), ListV(<<StrLeaf("b")>>)),
     ObjReq(StrV("a"), ListV(<<>>)),
     Request("json", Plain("malformed", "syntax", <<>>)),
     Request("json", Plain("num", "5", <<>>)),
     Request("json", Plain("str", "spec", <<>>)),
     Request("json", Plain("malformed", "recursion", <<>>)),
     Request("json", Body("obj", "", <<>>, FALSE, NullV, TRUE, ListV(<<StrLeaf("a")>>))),
     ObjReq(NumV, ListV(<<StrLeaf("a")>>)),
     ObjReq(StrV("a"), ListV(<<StrLeaf("a"), NumLeaf>>)),
     ObjReq(StrV("a"), ListV(<<StrLeaf("b"), StrLeaf("b")>>)),
     Request("other", Plain("null", "", <<>>))}

\* ------------------------------------------------------------------ slots
\* one worker thread: its request, its locals spec and candidates (lines 86-87),
\* whether its encoding raised, and its response
Slot(st, req, sp, ca, fail, resp) ==
    [st |-> st, req |-> req, spec |-> sp, candidates |-> ca, fail |-> fail, resp |-> resp]
IdleSlot == Slot("idle", NoReq, "", <<>>, FALSE, NoResp)

\* ------------------------------------------------------------------- Init
InitProv ==
    /\ prov = "idle" /\ provPrompted = FALSE /\ provFetched = FALSE
    /\ provAnswer = "none" /\ provFsAtCheck = FsAbsent

InitReq ==
    /\ lastOp = "none" /\ lastReq = NoReq /\ lastFail = FALSE
    /\ lastResp = NoResp /\ encodeCalled = FALSE /\ had500 = FALSE
    /\ slots = [i \in 1..NumSlots |-> IdleSlot]

Init ==
    /\ fs \in FsStates
    /\ svc = "init" /\ model = "none" /\ loadPath = "none" /\ regAccess = FALSE
    /\ fsAtCheck = FsAbsent /\ prevRun = "none" /\ startupErr = FALSE
    /\ InitProv /\ InitReq

\* a serving process that started from a complete cache entry
InitServing ==
    /\ fs = FsFull
    /\ svc = "serving" /\ model = MODEL_DIR /\ loadPath = "local" /\ regAccess = FALSE
    /\ fsAtCheck = FsFull /\ prevRun = "local_ok" /\ startupErr = FALSE
    /\ InitProv /\ InitReq

\* ---------------------------------------------------------------- startup
\* main.py lines 22-23
CheckLocal ==
    /\ svc = "init"
    /\ fsAtCheck' = fs
    /\ IF local_available(fs)
       THEN svc' = "local" /\ loadPath' = "local"
       ELSE svc' = "remote" /\ loadPath' = "remote"
    /\ UNCHANGED <<fs, model, regAccess, prevRun, startupErr, provVars, reqVars, slots>>

\* main.py lines 38-40
StartupError ==
    /\ svc' = on_startup_error
    /\ startupErr' = TRUE
    /\ prevRun' = "failed"

\* main.py lines 24-26
LoadLocal(ok) ==
    /\ svc = "local"
    /\ IF ok
       THEN /\ model' = MODEL_DIR /\ svc' = "serving" /\ prevRun' = "local_ok"
            /\ UNCHANGED startupErr
       ELSE StartupError /\ UNCHANGED model
    /\ UNCHANGED <<fs, loadPath, regAccess, fsAtCheck, provVars, reqVars, slots>>

\* main.py lines 28-31
FetchRemote(ok) ==
    /\ svc = "remote"
    /\ regAccess' = TRUE
    /\ IF ok
       THEN model' = MODEL_HUGGINGFACE /\ svc' = "saving" /\ UNCHANGED <<prevRun, startupErr>>
       ELSE StartupError /\ UNCHANGED model
    /\ UNCHANGED <<fs, loadPath, fsAtCheck, provVars, reqVars, slots>>

\* main.py lines 33-37
SaveModel(ok) ==
    /\ svc = "saving"
    /\ IF ok
       THEN /\ fs' = save_ok(fs) /\ svc' = "serving" /\ prevRun' = "remote_ok"
            /\ UNCHANGED startupErr
       ELSE fs' \in save_failed(fs) /\ StartupError
    /\ UNCHANGED <<model, loadPath, regAccess, fsAtCheck, provVars, reqVars, slots>>

\* the process is started again (main.py runs from line 1)
Restart ==
    /\ svc \in {"serving", "crashed"}
    /\ svc' = "init" /\ model' = "none" /\ loadPath' = "none" /\ regAccess' = FALSE
    /\ startupErr' = FALSE
    /\ lastOp' = "none" /\ lastReq' = NoReq /\ lastFail' = FALSE
    /\ lastResp' = NoResp /\ encodeCalled' = FALSE /\ had500' = FALSE
    /\ UNCHANGED <<fs, fsAtCheck, prevRun, provVars, slots>>

\* --------------------------------------------------------------- requests
\* main.py lines 43-119, one request handled start to end
CalculateDistances(req, fail) ==
    /\ svc = "serving"
    /\ lastOp' = "calc" /\ lastReq' = req /\ lastFail' = fail
    /\ lastResp' = calculate_distances(req, fail)
    /\ encodeCalled' = passes(req)
    /\ had500' = (had500 \/ calculate_distances(req, fail).status = 500)
    /\ UNCHANGED <<fs, svcVars, provVars, slots>>

\* main.py lines 122-125
Health ==
    /\ svc = "serving"
    /\ lastOp' = "health" /\ lastReq' = NoReq /\ lastFail' = FALSE
    /\ lastResp' = health
    /\ encodeCalled' = FALSE
    /\ UNCHANGED had500
    /\ UNCHANGED <<fs, svcVars, provVars, slots>>

\* ------------------------------------------------------------ provisioner
Answers == {"y", "Y", "n", "N", "yes", "YES", "no", ""}

\* str.lower()
lower(a) ==
    CASE a = "Y"   -> "y"
      [] a = "N"   -> "n"
      [] a = "YES" -> "yes"
      [] OTHER     -> a

\* download_model.py line 23: response.lower() != 'y'
skip_download(response) == lower(response) # "y"

\* download_model.py lines 13-22: up to the prompt, or straight to the fetch
ProvStart ==
    /\ prov = "idle"
    /\ provFsAtCheck' = fs
    /\ IF cache_exists(fs)
       THEN prov' = "prompt" /\ provPrompted' = TRUE
       ELSE prov' = "fetch" /\ provPrompted' = FALSE
    /\ UNCHANGED <<fs, svcVars, provFetched, provAnswer, reqVars, slots>>

\* download_model.py lines 22-25
ProvAnswer(a) ==
    /\ prov = "prompt"
    /\ provAnswer' = a
    /\ prov' = IF skip_download(a) THEN "done" ELSE "fetch"
    /\ UNCHANGED <<fs, svcVars, provPrompted, provFetched, provFsAtCheck, reqVars, slots>>

\* download_model.py lines 28-29
ProvFetch(ok) ==
    /\ prov = "fetch"
    /\ provFetched' = TRUE
    /\ prov' = IF ok THEN "save" ELSE "failed"
    /\ UNCHANGED <<fs, svcVars, provPrompted, provAnswer, provFsAtCheck, reqVars, slots>>

\* download_model.py lines 32-36
ProvSave(ok) ==
    /\ prov = "save"
    /\ IF ok
       THEN fs' = save_ok(fs) /\ prov' = "done"
       ELSE fs' \in save_failed(fs) /\ prov' = "failed"
    /\ UNCHANGED <<svcVars, provPrompted, provFetched, provAnswer, provFsAtCheck, reqVars, slots>>

\* the script is run again (download_model.py lines 38-39)
ProvReset ==
    /\ prov \in {"done", "failed"}
    /\ prov' = "idle" /\ provPrompted' = FALSE /\ provFetched' = FALSE
    /\ provAnswer' = "none" /\ provFsAtCheck' = FsAbsent
    /\ UNCHANGED <<fs, svcVars, reqVars, slots>>

\* ---------------------------------------------------- concurrent requests
\* a worker thread takes a request
Receive(i, req) ==
    /\ svc = "serving"
    /\ slots[i].st = "idle"
    /\ slots' = [slots EXCEPT ![i] = Slot("running", req, "", <<>>, FALSE, NoResp)]
    /\ UNCHANGED <<fs, svcVars, provVars, reqVars>>

\* main.py lines 59-99 run by the worker of slot i: a failed check answers,
\* otherwise spec and candidates are bound as locals of this invocation
ValidateStep(i) ==
    /\ svc = "serving"
    /\ slots[i].st = "running"
    /\ LET req == slots[i].req IN
       slots' = [slots EXCEPT ![i] =
                   IF passes(req)
                   THEN Slot("validated", req, req.body.spec.s,
                             TextsOf(req.body.candidates.items), FALSE, NoResp)
                   ELSE Slot("done", req, "", <<>>, FALSE, validate(req))]
    /\ UNCHANGED <<fs, svcVars, provVars, reqVars>>

\* variant: the except clause also drops the module-level model
EncodeStep_drops_model(i, fail) ==
    /\ svc = "serving"
    /\ slots[i].st = "validated"
    /\ slots' = [slots EXCEPT ![i] =
                   Slot("done", slots[i].req, slots[i].spec, slots[i].candidates, fail,
                        process(slots[i].spec, slots[i].candidates, fail))]
    /\ model' = IF fail THEN "none" ELSE model
    /\ UNCHANGED <<fs, svc, loadPath, regAccess, fsAtCheck, prevRun, startupErr,
                   provVars, reqVars>>

\* main.py lines 101-119 run by the worker of slot i on its own locals
EncodeStep(i, fail) ==
    /\ svc = "serving"
    /\ slots[i].st = "validated"
    /\ slots' = [slots EXCEPT ![i] =
                   Slot("done", slots[i].req, slots[i].spec, slots[i].candidates, fail,
                        process(slots[i].spec, slots[i].candidates, fail))]
    /\ UNCHANGED <<fs, svcVars, provVars, reqVars>>

\* the response is sent and the worker is free again
Release(i) ==
    /\ slots[i].st = "done"
    /\ slots' = [slots EXCEPT ![i] = IdleSlot]
    /\ UNCHANGED <<fs, svcVars, provVars, reqVars>>

\* ---------------------------------------------------------- specifications
Next ==
    \/ CheckLocal
    \/ \E ok \in BOOLEAN : LoadLocal(ok)
    \/ \E ok \in BOOLEAN : FetchRemote(ok)
    \/ \E ok \in BOOLEAN : SaveModel(ok)
    \/ Restart
    \/ \E req \in SampleRequests, fail \in BOOLEAN : CalculateDistances(req, fail)
    \/ Health
    \/ ProvStart
    \/ \E a \in Answers : ProvAnswer(a)
    \/ \E ok \in BOOLEAN : ProvFetch(ok)
    \/ \E ok \in BOOLEAN : ProvSave(ok)
    \/ ProvReset

Spec == Init /\ [][Next]_vars

\* every request of the bounded request space against a serving process
NextReq ==
    \/ \E req \in Requests, fail \in BOOLEAN : CalculateDistances(req, fail)
    \/ Health

SpecReq == InitServing /\ [][NextReq]_vars

\* interleaved requests against a serving process
NextConc ==
    \/ \E i \in 1..NumSlots, req \in SampleRequests : Receive(i, req)
    \/ \E i \in 1..NumSlots : ValidateStep(i)
    \/ \E i \in 1..NumSlots, fail \in BOOLEAN : EncodeStep(i, fail)
    \/ \E i \in 1..NumSlots : Release(i)

SpecConc == InitServing /\ [][NextConc]_vars

\* ================================================================ claims
\* the input contract of section 4.3: a JSON request whose body is an object
\* with a string 'spec' and a non-empty list of strings 'candidates'
WellFormed(req) ==
    /\ req.ctype = "json"
    /\ req.body.t = "obj"
    /\ req.body.has_spec /\ req.body.spec.t = "str"
    /\ req.body.has_candidates /\ req.body.candidates.t = "list"
    /\ Len(req.body.candidates.items) > 0
    /\ \A i \in 1..Len(req.body.candidates.items) : req.body.candidates.items[i].t = "str"

\* the number of the first of the nine listed checks the request fails, 0 if none
FirstFailingCheck(req) ==
    LET b == req.body IN
    IF req.ctype # "json" THEN 1
    ELSE IF b.t = "malformed" THEN 2
    ELSE IF b.t = "null" THEN 3
    ELSE IF ~(b.t = "obj" /\ b.has_spec) THEN 4
    ELSE IF ~b.has_candidates THEN 5
    ELSE IF b.spec.t # "str" THEN 6
    ELSE IF b.candidates.t # "list" THEN 7
    ELSE IF Len(b.candidates.items) = 0 THEN 8
    ELSE IF \E i \in 1..Len(b.candidates.items) : b.candidates.items[i].t # "str" THEN 9
    ELSE 0

\* the 400 errors of check k (the parse check has two)
CheckErrors(k) ==
    CASE k = 1 -> {E_CONTENT_TYPE}
      [] k = 2 -> {E_INVALID_JSON, E_PARSE_FAILED}
      [] k = 3 -> {E_EMPTY}
      [] k = 4 -> {E_NO_SPEC}
      [] k = 5 -> {E_NO_CAND}
      [] k = 6 -> {E_SPEC_TYPE}
      [] k = 7 -> {E_CAND_TYPE}
      [] k = 8 -> {E_CAND_EMPTY}
      [] OTHER -> {E_CAND_ITEMS}

CacheComplete(f) == f.dir /\ f.config

\* similarity of two texts under the loaded model, in Scale units
Similarity(a, b) == cosine_similarity(<<embed(a)>>, <<embed(b)>>)[1][1]

\* C1: every /calculate-distances request that fails a validation check
\* (wrong content type, unparseable body, or a body that is not an object
\* with a string 'spec' and a non-empty list of strings 'candidates') is
\* answered with status 400.
C1_ValidationFailureIs400 ==
    (lastOp = "calc" /\ ~WellFormed(lastReq)) => lastResp.status = 400

\* C2: the error returned is the 400 error of the lowest-numbered failing
\* check of the nine, and the model is not asked to encode anything.
C2_FirstFailingCheckWins ==
    (lastOp = "calc" /\ FirstFailingCheck(lastReq) > 0) =>
        /\ lastResp.status = 400
        /\ lastResp.error \in CheckErrors(FirstFailingCheck(lastReq))
        /\ ~encodeCalled

\* C3: a request that passes validation and whose encoding succeeds gets 200
\* with one distance per candidate, distances[i] = 1 - similarity(spec,
\* candidates[i]), in candidate order, duplicates included.
C3_DistancesMatchCandidates ==
    (lastOp = "calc" /\ WellFormed(lastReq) /\ ~lastFail) =>
        LET cands == lastReq.body.candidates.items
            sp    == lastReq.body.spec.s
        IN  /\ lastResp.status = 200
            /\ Len(lastResp.distances) = Len(cands)
            /\ \A i \in 1..Len(cands) :
                   lastResp.distances[i] = Scale - Similarity(sp, cands[i].s)

C3_Witness ==
    /\ lastOp = "calc" /\ WellFormed(lastReq) /\ ~lastFail
    /\ Len(lastReq.body.candidates.items) = 2
    /\ lastReq.body.candidates.items[1] = lastReq.body.candidates.items[2]
    /\ lastReq.body.spec.s # lastReq.body.candidates.items[1].s
    /\ lastResp.status = 200 /\ Len(lastResp.distances) = 2

\* C4: a response to /calculate-distances carries 'distances' exactly when
\* its status is 200 and 'error' exactly when its status is 400 or 500; a
\* JSON request whose object body has no 'spec' key gets 400 with the
\* missing-'spec' error and no 'distances'.
C4_AllOrNothing ==
    lastOp = "calc" =>
        /\ lastResp.status \in {200, 400, 500}
        /\ ("distances" \in lastResp.keys) <=> (lastResp.status = 200)
        /\ ("error" \in lastResp.keys) <=> (lastResp.status \in {400, 500})
        /\ (lastReq.ctype = "json" /\ lastReq.body.t = "obj" /\ ~lastReq.body.has_spec) =>
               /\ lastResp.status = 400
               /\ lastResp.error = E_NO_SPEC
               /\ "distances" \notin lastResp.keys

C4_Witness ==
    /\ lastOp = "calc"
    /\ lastReq.ctype = "json" /\ lastReq.body.t = "obj"
    /\ ~lastReq.body.has_spec /\ lastReq.body.has_candidates
    /\ lastResp.status = 400 /\ lastResp.keys = {"error"}

\* C5: a request is handled only by a process whose startup completed with a
\* loaded model; a startup in which loading, fetching or saving raised ends
\* crashed and has handled nothing.
C5_NoServingWithoutModel ==
    /\ lastOp # "none" => (svc = "serving" /\ model # "none")
    /\ svc = "serving" => (model # "none" /\ ~startupErr)
    /\ startupErr => (svc = "crashed" /\ lastOp = "none")

C5_Witness ==
    /\ startupErr /\ svc = "crashed"
    /\ loadPath = "remote" /\ model = MODEL_HUGGINGFACE /\ lastOp = "none"

\* C6: the provisioner prompts only when directory and config.json are both
\* present, fetches without prompting otherwise, and an error-free run
\* leaves the cache entry complete.
C6_PromptOnlyWhenComplete ==
    /\ provPrompted => CacheComplete(provFsAtCheck)
    /\ (prov \in {"prompt", "fetch", "save", "done"} /\ ~CacheComplete(provFsAtCheck))
           => (~provPrompted /\ prov # "prompt")
    /\ prov = "done" => CacheComplete(fs)

\* C7: after the prompt, the answer "no" means no registry fetch, and the
\* answer "yes" means the model is fetched again before the run ends.
C7_AnswerDecides ==
    /\ provAnswer = "no" => ~provFetched
    /\ (provAnswer = "yes" /\ prov = "done") => provFetched

\* C8: handling GET /health yields 200 with status "healthy" and the model
\* identifier, whatever was handled before, and changes no service state.
C8_HealthAlwaysHealthy ==
    [][(lastOp' = "health" /\ reqVars' # reqVars) =>
          /\ lastResp' = Resp(200, {"status", "model"}, "", <<>>, "healthy", MODEL_NAME)
          /\ UNCHANGED <<fs, svcVars, provVars, slots>>]_vars

C8_Witness ==
    /\ lastOp = "health" /\ had500
    /\ lastResp.status = 200 /\ lastResp.status_field = "healthy"

\* C9: startup takes the local path exactly when directory and config.json
\* both exist and then never touches the registry; on the fallback path the
\* cache entry is complete before serving, and the startup that follows a
\* successful fallback startup takes the local path.
C9_LocalFirst ==
    /\ loadPath # "none" => ((loadPath = "local") <=> CacheComplete(fsAtCheck))
    /\ loadPath = "local" => ~regAccess
    /\ (svc = "serving" /\ loadPath = "remote") => (regAccess /\ CacheComplete(fs))
    /\ (prevRun = "remote_ok" /\ svc \in {"local", "remote", "saving"}) => loadPath = "local"

C9_Witness ==
    prevRun = "remote_ok" /\ svc = "local" /\ loadPath = "local" /\ ~regAccess

\* what a request must be answered with, stated from its payload and the
\* outcome of its own encoding alone: a request passing all nine checks gets
\* 200 with the pointwise distances, or 500 when its encoding raised; a
\* request failing a check gets the 400 of its first failing check (for a
\* body that is not an object, past check 3, an error response)
ExpectedResponse(req, fail, resp) ==
    LET k     == FirstFailingCheck(req)
        cands == req.body.candidates.items
    IN  IF k = 0
        THEN IF fail
             THEN resp.status = 500 /\ resp.keys = {"error"}
             ELSE /\ resp.status = 200 /\ resp.keys = {"distances"}
                  /\ Len(resp.distances) = Len(cands)
                  /\ \A n \in 1..Len(cands) :
                         resp.distances[n] = Scale - Similarity(req.body.spec.s, cands[n].s)
        ELSE IF k <= 3 \/ req.body.t = "obj"
        THEN resp.status = 400 /\ resp.error \in CheckErrors(k) /\ "distances" \notin resp.keys
        ELSE resp.status \in {400, 500} /\ resp.keys = {"error"}

\* C10: handling a request changes no service state (process still serving,
\* model still loaded, cache untouched), also after a 500, and under every
\* interleaving of the workers each finished request carries the response
\* that its own payload and its own encoding outcome determine.
C10_RequestsIndependent ==
    [][/\ \A i \in 1..NumSlots :
             slots'[i].st = "done" =>
                 ExpectedResponse(slots'[i].req, slots'[i].fail, slots'[i].resp)
       /\ svc' = "serving" /\ model' = model /\ fs' = fs]_vars

\* one worker has answered 500 after an encoding failure, another has
\* answered 200 for the same payload
C10_Witness ==
    \E i, j \in 1..NumSlots :
        /\ slots[i].st = "done" /\ slots[i].fail /\ slots[i].resp.status = 500
        /\ slots[j].st = "done" /\ slots[j].req = slots[i].req
        /\ slots[j].resp.status = 200
        /\ svc = "serving" /\ model # "none"
====
